---- MODULE Spec2Model ----
(***************************************************************************)
(* Checkout and payment reconciliation of the Laxmi Silver backend:        *)
(* carts, orders, product stock, coupons and the two payment entry points  *)
(* (the synchronous verify call and the gateway webhook).                  *)
(*                                                                         *)
(* The database is the state.  Every request handler is one action in the  *)
(* specification Spec (requests served one after the other); SpecCheckout  *)
(* and SpecPricing are the checkout alone, with coupons; SpecLastUnits is  *)
(* two online orders paid and confirmed against the same stock; SpecRace   *)
(* and SpecCheckoutRace run the payment reconcilers and the checkouts as   *)
(* processes that interleave at each awaited database call.                *)
(*                                                                         *)
(* Money is an integer number of 1/10000 rupee, so that the 3% GST and a   *)
(* percentage discount are exact before they are rounded to 2 decimals.    *)
(***************************************************************************)
EXTENDS Integers, Sequences, FiniteSets, TLC

(***************************************************************************)
(* Bounds of the model.                                                    *)
(***************************************************************************)
MaxOrders == 1
MaxCheckouts == 2
MaxQty == 1
MaxStock == 3
MaxHistory == 2

Products == {"p1", "p2"}
Users == {"u1", "u2"}

\* src/src/constants/index.js
ORDER_STATUS ==
  {"pending", "confirmed", "processing", "shipped", "delivered", "cancelled", "returned"}
PAYMENT_STATUS == {"pending", "completed", "failed", "refunded"}
PAYMENT_METHOD == {"razorpay", "cod"}

\* One rupee, in the unit amounts are counted in.
Rupee == 10000

(***************************************************************************)
(* Catalogue.  Weight and making charges of a product never change in the  *)
(* operations modelled; stock, the in-stock flag and isActive do.          *)
(***************************************************************************)
SellingPriceOf(p) == IF p = "p1" THEN 1000 * Rupee ELSE 10080 * (Rupee \div 100)
MakingChargesOf(p) == IF p = "p1" THEN 50 * Rupee ELSE 0
WeightOf(p) == IF p = "p1" THEN 10 ELSE 30

(***************************************************************************)
(* Coupons.  Only usedCount changes; the rest of a coupon document is as   *)
(* it was created.  NoLimit stands for a null usageLimit/maxDiscountAmount.*)
(***************************************************************************)
NoLimit == 0
Times == {1}
CouponCodes == {"SAVE10", "QUARTER", "FLAT500", "OLD"}
NoCoupon == "none"
Coupon(code) ==
  CASE code = "SAVE10" ->
         [discountType |-> "percentage", discountValue |-> 10,
          minOrderAmount |-> 0, maxDiscountAmount |-> 100 * Rupee,
          usageLimit |-> 1, isActive |-> TRUE, validFrom |-> 1, validUntil |-> 2]
    [] code = "QUARTER" ->
         [discountType |-> "percentage", discountValue |-> 25,
          minOrderAmount |-> 0, maxDiscountAmount |-> NoLimit,
          usageLimit |-> NoLimit, isActive |-> TRUE, validFrom |-> 1, validUntil |-> 2]
    [] code = "FLAT500" ->
         [discountType |-> "fixed", discountValue |-> 500 * Rupee,
          minOrderAmount |-> 300 * Rupee, maxDiscountAmount |-> NoLimit,
          usageLimit |-> NoLimit, isActive |-> TRUE, validFrom |-> 1, validUntil |-> 2]
    [] OTHER ->
         [discountType |-> "fixed", discountValue |-> 100 * Rupee,
          minOrderAmount |-> 0, maxDiscountAmount |-> NoLimit,
          usageLimit |-> NoLimit, isActive |-> TRUE, validFrom |-> 0, validUntil |-> 0]

VARIABLES
  products,   \* Product collection: stock.quantity, stock.isInStock, isActive
  carts,      \* Cart collection, one document per user (or none yet)
  orders,     \* Order collection, in insertion order; an order's _id is its index
  usedCount,  \* Coupon collection: usedCount of each coupon
  intents,    \* gateway: the orders a Razorpay order (payment intent) exists for
  procs,      \* SpecRace: the reconcilers in flight, each between two awaits
  ledger,     \* history: per order, the units taken from and put back into
              \* stock on its behalf and the cart clears it caused
  last        \* the request served last and the HTTP status it was answered with

vars == <<products, carts, orders, usedCount, intents, procs, ledger, last>>

OrderIds == 1..Len(orders)
NoOrder == 0

\* An identifier or signature that is not set (undefined, or '').
NoId == <<>>

(***************************************************************************)
(* Mongoose hooks and helpers.                                             *)
(***************************************************************************)
\* productSchema.pre('save'): stock.isInStock follows stock.quantity.
ProductSave(doc) == [doc EXCEPT !.isInStock = (doc.quantity > 0)]

\* cartSchema.methods.calculateTotal
RECURSIVE SumItems(_, _)
SumItems(items, i) ==
  IF i > Len(items) THEN 0
  ELSE items[i].price * items[i].quantity + SumItems(items, i + 1)

calculateTotal(items) == SumItems(items, 1)

\* cartSchema.pre('save'): totalAmount is recomputed on every cart.save().
CartSave(items) == [exists |-> TRUE, items |-> items, totalAmount |-> calculateTotal(items)]

\* Cart.findOneAndUpdate({userId}, {items: []}): no document, no change; no
\* save hook runs, so totalAmount is left as it was.
CartClearByUpdate(cs, u) ==
  IF cs[u].exists THEN [cs EXCEPT ![u].items = <<>>] ELSE cs

\* Index of product p in a cart's items, 0 when absent (items.findIndex).
RECURSIVE FindIndex(_, _, _)
FindIndex(items, p, i) ==
  IF i > Len(items) THEN 0
  ELSE IF items[i].productId = p THEN i
  ELSE FindIndex(items, p, i + 1)

\* Math.round(x * 100) / 100 on an amount: round half up to 2 decimals.
Round2(n) == ((2 * n + 100) \div 200) * 100

\* What a request was and how it was answered: the handler, the order it
\* names, the event or status it carries, the payment.status the handler
\* found on that order when it loaded it, the HTTP status of the answer.
Resp(op, o, arg, code) ==
  [op |-> op, o |-> o, arg |-> arg,
   found |-> IF o \in OrderIds THEN orders[o].payment.status ELSE "",
   code |-> code]

(***************************************************************************)
(* Cart controller.                                                        *)
(***************************************************************************)
addToCart(u, p, q) ==
  LET product == products[p]
      items == carts[u].items
      idx == FindIndex(items, p, 1)
  IN
  /\ UNCHANGED <<products, orders, usedCount, intents, procs, ledger>>
  /\ IF ~product.isActive
     THEN /\ last' = Resp("addToCart", NoOrder, "", 404)
          /\ UNCHANGED carts
     ELSE IF product.quantity < q
     THEN /\ last' = Resp("addToCart", NoOrder, "", 400)
          /\ UNCHANGED carts
     ELSE IF idx > 0 /\ product.quantity < items[idx].quantity + q
     THEN /\ last' = Resp("addToCart", NoOrder, "", 400)
          /\ UNCHANGED carts
     ELSE /\ last' = Resp("addToCart", NoOrder, "", 200)
          /\ carts' =
               [carts EXCEPT ![u] =
                  CartSave(
                    IF idx > 0
                    THEN [items EXCEPT ![idx] =
                            [productId |-> p,
                             quantity |-> items[idx].quantity + q,
                             price |-> SellingPriceOf(p)]]
                    ELSE Append(items,
                           [productId |-> p, quantity |-> q,
                            price |-> SellingPriceOf(p)]))]

clearCart(u) ==
  /\ UNCHANGED <<products, orders, usedCount, intents, procs, ledger>>
  /\ IF ~carts[u].exists
     THEN /\ last' = Resp("clearCart", NoOrder, "", 404)
          /\ UNCHANGED carts
     ELSE /\ last' = Resp("clearCart", NoOrder, "", 200)
          /\ carts' = [carts EXCEPT ![u] = CartSave(<<>>)]

(***************************************************************************)
(* Product controller.                                                     *)
(***************************************************************************)
\* deleteProduct: a soft delete; the product is saved inactive.
deleteProduct(p) ==
  /\ UNCHANGED <<carts, orders, usedCount, intents, procs, ledger>>
  /\ last' = Resp("deleteProduct", NoOrder, "", 200)
  /\ products' = [products EXCEPT ![p] = ProductSave([@ EXCEPT !.isActive = FALSE])]

(***************************************************************************)
(* Order controller: createOrder.                                          *)
(***************************************************************************)
\* The stock validation loop: the index of the first cart line whose product
\* is inactive or short of stock, 0 when every line passes.
RECURSIVE FirstInvalidItem(_, _, _)
FirstInvalidItem(prods, items, i) ==
  IF i > Len(items) THEN 0
  ELSE IF ~prods[items[i].productId].isActive THEN i
  ELSE IF prods[items[i].productId].quantity < items[i].quantity THEN i
  ELSE FirstInvalidItem(prods, items, i + 1)

RECURSIVE SumMaking(_, _)
SumMaking(items, i) ==
  IF i > Len(items) THEN 0
  ELSE MakingChargesOf(items[i].productId) * items[i].quantity + SumMaking(items, i + 1)

RECURSIVE SumWeight(_, _)
SumWeight(items, i) ==
  IF i > Len(items) THEN 0
  ELSE WeightOf(items[i].productId) * items[i].quantity + SumWeight(items, i + 1)

\* The order's line items with the quantity of the cart line dropped.
orderItemsOfOne(items) ==
  [i \in 1..Len(items) |->
     [productId |-> items[i].productId,
      quantity |-> 1,
      price |-> items[i].price,
      weight |-> WeightOf(items[i].productId)]]

\* cart.items.map(...): the order's line items, copied from the cart.
orderItems(items) ==
  [i \in 1..Len(items) |->
     [productId |-> items[i].productId,
      quantity |-> items[i].quantity,
      price |-> items[i].price,
      weight |-> WeightOf(items[i].productId)]]

gstOf(items) == ((SumItems(items, 1) + SumMaking(items, 1)) * 3) \div 100

\* The shipping bands with the boundaries 50 and 100 in the dearer band.
shippingChargesFrom(items) ==
  IF SumWeight(items, 1) >= 100 THEN 200 * Rupee
  ELSE IF SumWeight(items, 1) >= 50 THEN 150 * Rupee
  ELSE 100 * Rupee

shippingChargesOf(items) ==
  IF SumWeight(items, 1) > 100 THEN 200 * Rupee
  ELSE IF SumWeight(items, 1) > 50 THEN 150 * Rupee
  ELSE 100 * Rupee

orderSubtotal(items) ==
  SumItems(items, 1) + SumMaking(items, 1) + gstOf(items) + shippingChargesOf(items)

\* Coupon.findOne({code, isActive: true, validFrom <= now, validUntil >= now})
CouponFound(code, now) ==
  /\ code \in CouponCodes
  /\ Coupon(code).isActive
  /\ Coupon(code).validFrom <= now
  /\ Coupon(code).validUntil >= now

\* The coupon checks with the usage limit left out.
CouponCheckUnlimited(code, now, used, items) ==
  IF ~CouponFound(code, now) THEN "invalid"
  ELSE IF orderSubtotal(items) < Coupon(code).minOrderAmount THEN "minimum"
  ELSE "ok"

\* Why a coupon is refused, "ok" when it is applied.
CouponCheck(code, now, used, items) ==
  IF ~CouponFound(code, now) THEN "invalid"
  ELSE IF Coupon(code).usageLimit # NoLimit /\ used[code] >= Coupon(code).usageLimit
  THEN "limit"
  ELSE IF orderSubtotal(items) < Coupon(code).minOrderAmount THEN "minimum"
  ELSE "ok"

Min(a, b) == IF a < b THEN a ELSE b

\* The discount with the coupon's maxDiscountAmount left out.
discountOfUncapped(code, items) ==
  IF code = NoCoupon THEN 0
  ELSE IF Coupon(code).discountType = "percentage"
  THEN (orderSubtotal(items) * Coupon(code).discountValue) \div 100
  ELSE Coupon(code).discountValue

discountOf(code, items) ==
  IF code = NoCoupon THEN 0
  ELSE IF Coupon(code).discountType = "percentage"
  THEN LET d == (orderSubtotal(items) * Coupon(code).discountValue) \div 100
       IN IF Coupon(code).maxDiscountAmount # NoLimit
          THEN Min(d, Coupon(code).maxDiscountAmount)
          ELSE d
  ELSE Coupon(code).discountValue

pricingOf(code, items) ==
  [subtotal |-> Round2(SumItems(items, 1)),
   makingCharges |-> Round2(SumMaking(items, 1)),
   gst |-> Round2(gstOf(items)),
   shippingCharges |-> shippingChargesOf(items),
   discount |-> Round2(discountOf(code, items)),
   total |-> Round2(orderSubtotal(items) - discountOf(code, items))]

\* Order.create: the document as inserted, after the pre('save') hooks (the
\* order number from the clock and the document count; no history entry on
\* a new document).
NewOrder(u, items, code, method, now, count) ==
  [orderNumber |-> <<now, count + 1>>,
   userId |-> u,
   items |-> orderItems(items),
   pricing |-> pricingOf(code, items),
   payment |-> [method |-> method, status |-> "pending",
                razorpayOrderId |-> NoId, razorpayPaymentId |-> NoId,
                razorpaySignature |-> NoId],
   status |-> "pending",
   statusHistory |-> <<>>]

\* The unique index on orderNumber.
OrderNumberTaken(os, number) == \E i \in 1..Len(os) : os[i].orderNumber = number

\* sendEmail that throws out of the handler: the request is answered 500.
SendEmailUncaught(sent, code) == IF sent THEN code ELSE 500

\* try { await sendEmail(...) } catch (error) { console.error(...) }: the
\* status the handler answers with after it, the mail sent or not.
TrySendEmail(sent, code) == IF sent THEN code ELSE code

\* createOrder that empties the cart once the order is created.
createOrderClearingCart(u, code, method, now) ==
  LET cart == carts[u]
      order == NewOrder(u, cart.items, code, method, now, Len(orders))
  IN
  /\ UNCHANGED <<products, intents, procs, ledger>>
  /\ IF \/ ~cart.exists \/ Len(cart.items) = 0
        \/ FirstInvalidItem(products, cart.items, 1) # 0
        \/ code # NoCoupon /\ CouponCheck(code, now, usedCount, cart.items) # "ok"
     THEN /\ last' = Resp("createOrder", NoOrder, "", 400)
          /\ UNCHANGED <<orders, usedCount, carts>>
     ELSE /\ usedCount' = IF code # NoCoupon
                          THEN [usedCount EXCEPT ![code] = @ + 1]
                          ELSE usedCount
          /\ last' = Resp("createOrder", Len(orders) + 1, "", 201)
          /\ orders' = Append(orders, order)
          /\ carts' = [carts EXCEPT ![u] = CartSave(<<>>)]

createOrderSending(u, code, method, now, sent) ==
  LET cart == carts[u]
      check == CouponCheck(code, now, usedCount, cart.items)
      used == IF code # NoCoupon
              THEN [usedCount EXCEPT ![code] = @ + 1]
              ELSE usedCount
      order == NewOrder(u, cart.items, code, method, now, Len(orders))
  IN
  /\ UNCHANGED <<products, carts, intents, procs, ledger>>
  /\ IF ~cart.exists \/ Len(cart.items) = 0
     THEN /\ last' = Resp("createOrder", NoOrder, "", 400)
          /\ UNCHANGED <<orders, usedCount>>
     ELSE IF FirstInvalidItem(products, cart.items, 1) # 0
     THEN /\ last' = Resp("createOrder", NoOrder, "", 400)
          /\ UNCHANGED <<orders, usedCount>>
     ELSE IF code # NoCoupon /\ check # "ok"
     THEN /\ last' = Resp("createOrder", NoOrder, "", 400)
          /\ UNCHANGED <<orders, usedCount>>
     ELSE /\ usedCount' = used
          /\ IF OrderNumberTaken(orders, order.orderNumber)
             THEN /\ last' = Resp("createOrder", NoOrder, "", 400)
                  /\ UNCHANGED orders
             ELSE /\ last' = Resp("createOrder", Len(orders) + 1, "",
                                   TrySendEmail(sent, 201))
                  /\ orders' = Append(orders, order)

\* createOrder, the notification going out or failing.
createOrder(u, code, method, now) ==
  \E sent \in BOOLEAN : createOrderSending(u, code, method, now, sent)

(***************************************************************************)
(* Payment gateway.  A keyed hash is modelled by the pair of its key and   *)
(* its text: two hashes are equal exactly when key and text are.  Whoever  *)
(* does not hold the secret signs with another key.                        *)
(***************************************************************************)
Hmac(key, text) == <<key, text>>
KeySecret == "RAZORPAY_KEY_SECRET"
WebhookSecret == "RAZORPAY_WEBHOOK_SECRET"
OtherKey == "guess"

\* The gateway's identifiers of the intent created for order o and of the
\* payment made on it.
RzpOrderIdOf(o) == <<"order", o>>
PaymentIdOf(o) == <<"pay", o>>

\* verifyPaymentSignature that hashes the two ids without the key secret.
verifyPaymentSignatureUnkeyed(razorpayOrderId, razorpayPaymentId, razorpaySignature) ==
  /\ razorpaySignature # NoId
  /\ razorpaySignature[2] = <<razorpayOrderId, razorpayPaymentId>>

\* PaymentService.verifyPaymentSignature
verifyPaymentSignature(razorpayOrderId, razorpayPaymentId, razorpaySignature) ==
  Hmac(KeySecret, <<razorpayOrderId, razorpayPaymentId>>) = razorpaySignature

\* verifyWebhookSignature that only requires a signature header to be there.
verifyWebhookSignaturePresent(webhookBody, webhookSignature) ==
  webhookSignature # NoId

\* PaymentService.verifyWebhookSignature
verifyWebhookSignature(webhookBody, webhookSignature) ==
  Hmac(WebhookSecret, webhookBody) = webhookSignature

\* The (razorpayOrderId, razorpayPaymentId, razorpaySignature) triples a
\* client can send: the ones the gateway issued for a paid intent, and ones
\* signed without the secret.
PaymentTriples ==
  {[razorpayOrderId |-> RzpOrderIdOf(i), razorpayPaymentId |-> PaymentIdOf(i),
    razorpaySignature |-> Hmac(KeySecret, <<RzpOrderIdOf(i), PaymentIdOf(i)>>)]
     : i \in intents}
  \cup
  {[razorpayOrderId |-> RzpOrderIdOf(i), razorpayPaymentId |-> PaymentIdOf(i),
    razorpaySignature |-> Hmac(OtherKey, <<RzpOrderIdOf(i), PaymentIdOf(i)>>)]
     : i \in 1..MaxOrders}

WebhookEvents == {"payment.captured", "payment.failed", "refund.processed", "order.paid"}

WebhookBody(event, i) ==
  [event |-> event,
   payment |-> [id |-> PaymentIdOf(i), order_id |-> RzpOrderIdOf(i), orderId |-> i],
   refund |-> [payment_id |-> PaymentIdOf(i)]]

\* The webhook requests that can arrive: the gateway's, about an intent it
\* holds and signed with the webhook secret, and anybody else's.
WebhookRequests ==
  {[body |-> WebhookBody(e, i), signature |-> Hmac(WebhookSecret, WebhookBody(e, i))]
     : e \in WebhookEvents, i \in intents}
  \cup
  {[body |-> WebhookBody(e, i), signature |-> Hmac(OtherKey, WebhookBody(e, i))]
     : e \in WebhookEvents, i \in 1..MaxOrders}
  \cup
  {[body |-> WebhookBody(e, i), signature |-> NoId]
     : e \in WebhookEvents, i \in 1..MaxOrders}

(***************************************************************************)
(* Order documents and order.save().                                       *)
(***************************************************************************)
Entry(status, updatedBy) == [status |-> status, updatedBy |-> updatedBy]

\* orderSchema.pre('save'), status history: one entry when status is modified.
HistoryHook(loaded, doc) ==
  IF doc.status # loaded.status THEN <<Entry(doc.status, "")>> ELSE <<>>

\* order.save() that also writes the line items, read again from the cart
\* of the owner.
OrderSaveFromCart(cur, loaded, doc, pushed) ==
  [cur EXCEPT
     !.status = IF doc.status # loaded.status THEN doc.status ELSE @,
     !.payment.status =
        IF doc.payment.status # loaded.payment.status THEN doc.payment.status ELSE @,
     !.items = orderItems(carts[cur.userId].items),
     !.statusHistory = @ \o pushed \o HistoryHook(loaded, doc)]

\* order.save() of a document loaded as `loaded` and changed into `doc`, on
\* the stored document `cur`: the modified paths are set, the entries pushed
\* on statusHistory (by the handler, then by the hook) are appended.
OrderSave(cur, loaded, doc, pushed) ==
  [cur EXCEPT
     !.status = IF doc.status # loaded.status THEN doc.status ELSE @,
     !.payment.status =
        IF doc.payment.status # loaded.payment.status THEN doc.payment.status ELSE @,
     !.payment.razorpayOrderId =
        IF doc.payment.razorpayOrderId # loaded.payment.razorpayOrderId
        THEN doc.payment.razorpayOrderId ELSE @,
     !.payment.razorpayPaymentId =
        IF doc.payment.razorpayPaymentId # loaded.payment.razorpayPaymentId
        THEN doc.payment.razorpayPaymentId ELSE @,
     !.payment.razorpaySignature =
        IF doc.payment.razorpaySignature # loaded.payment.razorpaySignature
        THEN doc.payment.razorpaySignature ELSE @,
     !.statusHistory = @ \o pushed \o HistoryHook(loaded, doc)]

\* How many entries a save appends to statusHistory.
Pushes(loaded, doc, pushed) == Len(pushed) + Len(HistoryHook(loaded, doc))

\* The decrement loop without the validation of stock.quantity (min 0).
RECURSIVE DecrementItemsUnchecked(_, _, _)
DecrementItemsUnchecked(prods, items, i) ==
  IF i > Len(items) THEN [products |-> prods, ok |-> TRUE]
  ELSE DecrementItemsUnchecked(
         [prods EXCEPT ![items[i].productId] =
            ProductSave([@ EXCEPT !.quantity = @ - items[i].quantity])],
         items, i + 1)

\* The per-item loop `product.stock.quantity -= item.quantity; product.save()`:
\* the products after it and whether it ran through; the save of a quantity
\* below 0 fails validation (min: 0) and ends the loop with the earlier
\* items already written.
RECURSIVE DecrementItems(_, _, _)
DecrementItems(prods, items, i) ==
  IF i > Len(items) THEN [products |-> prods, ok |-> TRUE]
  ELSE LET p == items[i].productId
           q == prods[p].quantity - items[i].quantity
       IN IF q < 0
          THEN [products |-> prods, ok |-> FALSE]
          ELSE DecrementItems(
                 [prods EXCEPT ![p] = ProductSave([@ EXCEPT !.quantity = q])],
                 items, i + 1)

\* The restore loop putting one unit back per line, whatever its quantity.
RECURSIVE RestoreOneOfEach(_, _, _)
RestoreOneOfEach(prods, items, i) ==
  IF i > Len(items) THEN prods
  ELSE RestoreOneOfEach(
         [prods EXCEPT ![items[i].productId].quantity = @ + 1],
         items, i + 1)

\* The per-item loop `Product.findByIdAndUpdate(id, {$inc: ...})`: an update
\* in the database, with no save hook.
RECURSIVE RestoreItems(_, _, _)
RestoreItems(prods, items, i) ==
  IF i > Len(items) THEN prods
  ELSE RestoreItems(
         [prods EXCEPT ![items[i].productId].quantity = @ + items[i].quantity],
         items, i + 1)

\* The order document with the payment marked successful.
PaidDoc(loaded, details) ==
  [loaded EXCEPT
     !.payment.status = "completed",
     !.payment.razorpayOrderId = details.razorpayOrderId,
     !.payment.razorpayPaymentId = details.razorpayPaymentId,
     !.payment.razorpaySignature = details.razorpaySignature,
     !.status = "confirmed"]

\* PaymentService.processSuccessfulPayment, run without interruption on the
\* database d = [orders, products, carts, clears]: the database after it and
\* whether it returned (ok) or threw.  clears counts the cart updates made.
processSuccessfulPayment(d, o, details) ==
  LET loaded == d.orders[o]
      saved == [d.orders EXCEPT ![o] = OrderSave(@, loaded, PaidDoc(loaded, details), <<>>)]
      dec == DecrementItems(d.products, loaded.items, 1)
  IN [orders |-> saved,
      products |-> dec.products,
      carts |-> IF dec.ok THEN CartClearByUpdate(d.carts, loaded.userId) ELSE d.carts,
      clears |-> IF dec.ok THEN d.clears + 1 ELSE d.clears,
      ok |-> dec.ok]

Database == [orders |-> orders, products |-> products, carts |-> carts, clears |-> 0]

Max0(n) == IF n > 0 THEN n ELSE 0

\* The ledger after a request made stock `prods` out of `products` and
\* cleared carts `clears` times on behalf of order o.
Booked(o, prods, clears) ==
  IF o \notin DOMAIN ledger THEN ledger
  ELSE [ledger EXCEPT ![o] =
          [taken |-> [p \in Products |->
                       @.taken[p] + Max0(products[p].quantity - prods[p].quantity)],
           restored |-> [p \in Products |->
                          @.restored[p] + Max0(prods[p].quantity - products[p].quantity)],
           cleared |-> @.cleared + clears]]

\* Bounds of the model: a step is taken only if no statusHistory grows past
\* MaxHistory and no stock past MaxStock.  A cash-on-delivery order, which
\* only the admin confirms (two entries for one change), may hold one entry
\* more, for the cancellation that follows.
HistoryLimit(order) ==
  IF order.payment.method = "cod" THEN MaxHistory + 1 ELSE MaxHistory
HistoryBounded(os) ==
  \A i \in 1..Len(os) : Len(os[i].statusHistory) <= HistoryLimit(os[i])
StockBounded(prods) == \A p \in Products : prods[p].quantity <= MaxStock

(***************************************************************************)
(* Payment controller.                                                     *)
(***************************************************************************)
createPaymentOrder(u, o, gatewayOk) ==
  /\ UNCHANGED <<products, carts, usedCount, procs, ledger>>
  /\ IF o \notin OrderIds
     THEN /\ last' = Resp("createPaymentOrder", o, "", 404)
          /\ UNCHANGED <<orders, intents>>
     ELSE IF orders[o].userId # u
     THEN /\ last' = Resp("createPaymentOrder", o, "", 403)
          /\ UNCHANGED <<orders, intents>>
     ELSE IF orders[o].payment.status = "completed"
     THEN /\ last' = Resp("createPaymentOrder", o, "", 400)
          /\ UNCHANGED <<orders, intents>>
     ELSE IF orders[o].payment.method # "razorpay"
     THEN /\ last' = Resp("createPaymentOrder", o, "", 400)
          /\ UNCHANGED <<orders, intents>>
     ELSE IF ~gatewayOk
     THEN /\ last' = Resp("createPaymentOrder", o, "", 500)
          /\ UNCHANGED <<orders, intents>>
     ELSE /\ last' = Resp("createPaymentOrder", o, "", 200)
          /\ intents' = intents \cup {o}
          /\ orders' = [orders EXCEPT ![o].payment.razorpayOrderId = RzpOrderIdOf(o)]

verifyPaymentSending(u, o, triple, sent) ==
  LET isValid == verifyPaymentSignature(triple.razorpayOrderId,
                                        triple.razorpayPaymentId,
                                        triple.razorpaySignature)
      paid == processSuccessfulPayment(Database, o, triple)
  IN
  /\ UNCHANGED <<usedCount, intents, procs>>
  /\ IF o \notin OrderIds
     THEN /\ last' = Resp("verifyPayment", o, "", 404)
          /\ UNCHANGED <<orders, products, carts, ledger>>
     ELSE IF orders[o].userId # u
     THEN /\ last' = Resp("verifyPayment", o, "", 403)
          /\ UNCHANGED <<orders, products, carts, ledger>>
     ELSE IF ~isValid
     THEN /\ last' = Resp("verifyPayment", o, "", 400)
          /\ orders' = [orders EXCEPT ![o].payment.status = "failed"]
          /\ UNCHANGED <<products, carts, ledger>>
     ELSE /\ last' = Resp("verifyPayment", o, "",
                           IF paid.ok THEN TrySendEmail(sent, 200) ELSE 500)
          /\ orders' = paid.orders
          /\ products' = paid.products
          /\ carts' = paid.carts
          /\ ledger' = Booked(o, paid.products, paid.clears)
          /\ HistoryBounded(orders')

\* verifyPayment, the notification going out or failing.
verifyPayment(u, o, triple) ==
  \E sent \in BOOLEAN : verifyPaymentSending(u, o, triple, sent)

\* handlePaymentCaptured with the check for an already completed payment
\* left out.
handlePaymentCapturedUnguarded(d, payload) ==
  IF payload.orderId \notin 1..Len(d.orders) THEN d
  ELSE LET paid == processSuccessfulPayment(d, payload.orderId,
                     [razorpayOrderId |-> payload.order_id,
                      razorpayPaymentId |-> payload.id,
                      razorpaySignature |-> NoId])
       IN [orders |-> paid.orders, products |-> paid.products,
           carts |-> paid.carts, clears |-> paid.clears]

\* handlePaymentCaptured: the database after it; what it throws is caught
\* and logged.
handlePaymentCaptured(d, payload) ==
  IF payload.orderId \notin 1..Len(d.orders) THEN d
  ELSE IF d.orders[payload.orderId].payment.status = "completed" THEN d
  ELSE LET paid == processSuccessfulPayment(d, payload.orderId,
                     [razorpayOrderId |-> payload.order_id,
                      razorpayPaymentId |-> payload.id,
                      razorpaySignature |-> NoId])
       IN [orders |-> paid.orders, products |-> paid.products,
           carts |-> paid.carts, clears |-> paid.clears]

handlePaymentFailed(d, payload) ==
  IF payload.orderId \notin 1..Len(d.orders) THEN d
  ELSE [d EXCEPT !.orders[payload.orderId].payment.status = "failed"]

\* Order.findOne({'payment.razorpayPaymentId': paymentId}): the first match,
\* 0 when there is none.
RECURSIVE FindByPaymentId(_, _, _)
FindByPaymentId(os, paymentId, i) ==
  IF i > Len(os) THEN 0
  ELSE IF os[i].payment.razorpayPaymentId = paymentId THEN i
  ELSE FindByPaymentId(os, paymentId, i + 1)

handleRefundProcessed(d, payload) ==
  LET o == FindByPaymentId(d.orders, payload.payment_id, 1)
  IN IF o = 0 THEN d
     ELSE [d EXCEPT !.orders[o].payment.status = "refunded"]

\* The switch of handleWebhook.
Dispatch(d, body) ==
  CASE body.event = "payment.captured" -> handlePaymentCaptured(d, body.payment)
    [] body.event = "payment.failed" -> handlePaymentFailed(d, body.payment)
    [] body.event = "refund.processed" -> handleRefundProcessed(d, body.refund)
    [] OTHER -> d

handleWebhook(req) ==
  LET isValid == verifyWebhookSignature(req.body, req.signature)
      after == Dispatch(Database, req.body)
  IN
  /\ UNCHANGED <<usedCount, intents, procs>>
  /\ IF ~isValid
     THEN /\ last' = Resp("handleWebhook", req.body.payment.orderId, req.body.event, 400)
          /\ UNCHANGED <<orders, products, carts, ledger>>
     ELSE /\ last' = Resp("handleWebhook", req.body.payment.orderId, req.body.event, 200)
          /\ orders' = after.orders
          /\ products' = after.products
          /\ carts' = after.carts
          /\ ledger' = Booked(req.body.payment.orderId, after.products, after.clears)
          /\ HistoryBounded(orders')

initiateRefund(o, gatewayOk) ==
  LET order == orders[o]
      doc == [order EXCEPT !.payment.status = "refunded", !.status = "cancelled"]
  IN
  /\ UNCHANGED <<carts, usedCount, intents, procs>>
  /\ IF o \notin OrderIds
     THEN /\ last' = Resp("initiateRefund", o, "", 404)
          /\ UNCHANGED <<orders, products, ledger>>
     ELSE IF order.payment.status # "completed"
     THEN /\ last' = Resp("initiateRefund", o, "", 400)
          /\ UNCHANGED <<orders, products, ledger>>
     ELSE IF order.payment.razorpayPaymentId = NoId
     THEN /\ last' = Resp("initiateRefund", o, "", 400)
          /\ UNCHANGED <<orders, products, ledger>>
     ELSE IF ~gatewayOk
     THEN /\ last' = Resp("initiateRefund", o, "", 500)
          /\ UNCHANGED <<orders, products, ledger>>
     ELSE /\ last' = Resp("initiateRefund", o, "", 200)
          /\ orders' = [orders EXCEPT ![o] = OrderSave(@, order, doc, <<>>)]
          /\ products' = RestoreItems(products, order.items, 1)
          /\ ledger' = Booked(o, products', 0)
          /\ HistoryBounded(orders')
          /\ StockBounded(products')

(***************************************************************************)
(* Order controller: cancelOrder, updateOrderStatus.                       *)
(***************************************************************************)
cancelOrder(u, o) ==
  LET order == orders[o]
      doc == [order EXCEPT !.status = "cancelled"]
  IN
  /\ UNCHANGED <<carts, usedCount, intents, procs>>
  /\ IF o \notin OrderIds
     THEN /\ last' = Resp("cancelOrder", o, "", 404)
          /\ UNCHANGED <<orders, products, ledger>>
     ELSE IF order.userId # u
     THEN /\ last' = Resp("cancelOrder", o, "", 403)
          /\ UNCHANGED <<orders, products, ledger>>
     ELSE IF order.status \in {"shipped", "delivered", "cancelled"}
     THEN /\ last' = Resp("cancelOrder", o, "", 400)
          /\ UNCHANGED <<orders, products, ledger>>
     ELSE /\ last' = Resp("cancelOrder", o, "", 200)
          /\ orders' = [orders EXCEPT ![o] = OrderSave(@, order, doc, <<>>)]
          /\ products' = IF order.payment.status = "completed"
                         THEN RestoreItems(products, order.items, 1)
                         ELSE products
          /\ ledger' = Booked(o, products', 0)
          /\ HistoryBounded(orders')
          /\ StockBounded(products')

updateOrderStatus(o, status) ==
  LET order == orders[o]
      oldStatus == order.status
      doc == [order EXCEPT !.status = status]
      confirms == status = "confirmed" /\ oldStatus = "pending"
      dec == DecrementItems(products, order.items, 1)
  IN
  /\ UNCHANGED <<usedCount, intents, procs>>
  /\ IF o \notin OrderIds
     THEN /\ last' = Resp("updateOrderStatus", o, status, 404)
          /\ UNCHANGED <<orders, products, carts, ledger>>
     ELSE IF confirms /\ ~dec.ok
     THEN /\ last' = Resp("updateOrderStatus", o, status, 400)
          /\ products' = dec.products
          /\ ledger' = Booked(o, dec.products, 0)
          /\ UNCHANGED <<orders, carts>>
     ELSE IF status \notin ORDER_STATUS
     THEN /\ last' = Resp("updateOrderStatus", o, status, 400)
          /\ UNCHANGED <<orders, products, carts, ledger>>
     ELSE /\ last' = Resp("updateOrderStatus", o, status, 200)
          /\ products' = IF confirms THEN dec.products ELSE products
          /\ carts' = IF confirms THEN CartClearByUpdate(carts, order.userId) ELSE carts
          /\ orders' = [orders EXCEPT ![o] =
                          OrderSave(@, order, doc, <<Entry(status, "admin")>>)]
          /\ ledger' = Booked(o, products', IF confirms THEN 1 ELSE 0)
          /\ HistoryBounded(orders')

(***************************************************************************)
(* The system: requests served one after the other.                        *)
(***************************************************************************)
InitStock(p) == IF p = "p1" THEN 2 ELSE 1
Customers == {"u1"}
AdminStatuses == {"pending", "confirmed", "shipped"}

InitDatabase ==
  /\ products = [p \in Products |->
                  [quantity |-> InitStock(p), isInStock |-> TRUE, isActive |-> TRUE]]
  /\ carts = [u \in Users |-> [exists |-> FALSE, items |-> <<>>, totalAmount |-> 0]]
  /\ orders = <<>>
  /\ usedCount = [c \in CouponCodes |-> 0]
  /\ intents = {}
  /\ ledger = [o \in 1..MaxCheckouts |->
                 [taken |-> [p \in Products |-> 0],
                  restored |-> [p \in Products |-> 0],
                  cleared |-> 0]]
  /\ last = [op |-> "", o |-> NoOrder, arg |-> "", found |-> "", code |-> 0]

Init == InitDatabase /\ procs = <<>>

Next ==
  \/ \E u \in Customers, p \in Products, q \in 1..MaxQty : addToCart(u, p, q)
  \/ \E u \in Customers : clearCart(u)
  \/ \E u \in Customers, m \in PAYMENT_METHOD, t \in Times :
       Len(orders) < MaxOrders /\ createOrder(u, NoCoupon, m, t)
  \/ \E u \in Users, o \in 1..MaxOrders, g \in BOOLEAN : createPaymentOrder(u, o, g)
  \/ \E u \in Users, o \in 1..MaxOrders, t \in PaymentTriples : verifyPayment(u, o, t)
  \/ \E r \in WebhookRequests : handleWebhook(r)
  \/ \E o \in 1..MaxOrders, g \in BOOLEAN : initiateRefund(o, g)
  \/ \E u \in Users, o \in 1..MaxOrders : cancelOrder(u, o)
  \/ \E o \in 1..MaxOrders, s \in AdminStatuses : updateOrderStatus(o, s)

Spec == Init /\ [][Next]_vars

(***************************************************************************)
(* Checkout: carts, coupons and createOrder, with the admin confirmation   *)
(* that takes stock away under a cart.                                     *)
(***************************************************************************)
NextCheckout ==
  \/ \E u \in Customers, p \in Products, q \in 1..MaxQty : addToCart(u, p, q)
  \/ \E u \in Customers : clearCart(u)
  \/ \E u \in Customers, c \in CouponCodes \cup {NoCoupon}, t \in Times :
       Len(orders) < MaxCheckouts /\ createOrder(u, c, "cod", t)
  \/ \E o \in 1..MaxCheckouts : updateOrderStatus(o, "confirmed")
  \/ \E p \in Products : deleteProduct(p)

SpecCheckout == Init /\ [][NextCheckout]_vars

(***************************************************************************)
(* Pricing: carts of every weight band and one checkout, with any coupon   *)
(* and any payment method.  The catalogue holds enough stock for a cart of *)
(* more than 100 kg.                                                       *)
(***************************************************************************)
PricingStock(p) == IF p = "p1" THEN 2 ELSE MaxStock

InitPricing ==
  /\ products = [p \in Products |->
                  [quantity |-> PricingStock(p), isInStock |-> TRUE, isActive |-> TRUE]]
  /\ carts = [u \in Users |-> [exists |-> FALSE, items |-> <<>>, totalAmount |-> 0]]
  /\ orders = <<>>
  /\ usedCount = [c \in CouponCodes |-> 0]
  /\ intents = {}
  /\ ledger = [o \in 1..MaxCheckouts |->
                 [taken |-> [p \in Products |-> 0],
                  restored |-> [p \in Products |-> 0],
                  cleared |-> 0]]
  /\ last = [op |-> "", o |-> NoOrder, arg |-> "", found |-> "", code |-> 0]
  /\ procs = <<>>

NextPricing ==
  \/ \E u \in Customers, p \in Products, q \in 1..MaxQty : addToCart(u, p, q)
  \/ \E u \in Customers, c \in CouponCodes \cup {NoCoupon}, m \in PAYMENT_METHOD,
        t \in Times :
       Len(orders) < MaxOrders /\ createOrder(u, c, m, t)

SpecPricing == InitPricing /\ [][NextPricing]_vars

(***************************************************************************)
(* Last units: several orders on the same stock, each paid through         *)
(* verifyPayment or confirmed by an admin, requests served one after the   *)
(* other.                                                                  *)
(***************************************************************************)
\* What the checkout page posts after a payment: the triple the gateway
\* signed for a payment intent.
PaidTriples ==
  {t \in PaymentTriples :
     t.razorpaySignature = Hmac(KeySecret, <<t.razorpayOrderId, t.razorpayPaymentId>>)}

NextLastUnits ==
  \/ \E u \in Customers, p \in Products, q \in 1..MaxQty : addToCart(u, p, q)
  \/ \E u \in Customers, t \in Times :
       Len(orders) < MaxCheckouts /\ createOrder(u, NoCoupon, "razorpay", t)
  \/ \E u \in Customers, o \in 1..MaxCheckouts : createPaymentOrder(u, o, TRUE)
  \/ \E u \in Customers, o \in 1..MaxCheckouts, t \in PaidTriples :
       verifyPayment(u, o, t)
  \/ \E o \in 1..MaxCheckouts : updateOrderStatus(o, "confirmed")

SpecLastUnits == Init /\ [][NextLastUnits]_vars

(***************************************************************************)
(* Concurrent reconcilers.  A handler runs up to its next awaited database *)
(* call, and another handler may run in between; a reconciler is verify-   *)
(* Payment with a valid signature or handlePaymentCaptured, each followed   *)
(* by processSuccessfulPayment.  procs[r] is what reconciler r holds in its *)
(* local variables: the order document as it loaded it, the index of the   *)
(* line it is at, the product document as it loaded it, and how many       *)
(* product documents it has saved.                                         *)
(***************************************************************************)
Reconcilers == {"r1", "r2"}
ReconcilerKinds == {"verifyPayment", "handlePaymentCaptured"}

Idle ==
  [pc |-> "idle", kind |-> "", o |-> NoOrder, order |-> NoId, details |-> NoId,
   i |-> 0, product |-> NoId, saved |-> 0]

\* What the reconciler of kind `kind` hands to processSuccessfulPayment.
DetailsOf(kind, o) ==
  [razorpayOrderId |-> RzpOrderIdOf(o),
   razorpayPaymentId |-> PaymentIdOf(o),
   razorpaySignature |->
     IF kind = "verifyPayment"
     THEN Hmac(KeySecret, <<RzpOrderIdOf(o), PaymentIdOf(o)>>)
     ELSE NoId]

Answered(r, code) ==
  [op |-> procs[r].kind, o |-> procs[r].o, arg |-> "",
   found |-> procs[r].order.payment.status, code |-> code]

\* await Order.findById(orderId), and the checks up to the next await.
awaitOrderFindById(r, kind, o) ==
  /\ procs[r].pc = "idle"
  /\ o \in OrderIds
  /\ o \in intents
  /\ procs' =
       [procs EXCEPT ![r] =
          [pc |-> IF kind = "handlePaymentCaptured"
                     /\ orders[o].payment.status = "completed"
                  THEN "done" ELSE "saveOrder",
           kind |-> kind, o |-> o, order |-> orders[o],
           details |-> DetailsOf(kind, o), i |-> 1, product |-> NoId, saved |-> 0]]
  /\ last' = IF procs'[r].pc = "done"
             THEN [op |-> kind, o |-> o, arg |-> "",
                   found |-> orders[o].payment.status, code |-> 200]
             ELSE last
  /\ UNCHANGED <<products, carts, orders, usedCount, intents, ledger>>

\* await order.save() in processSuccessfulPayment.
awaitOrderSave(r) ==
  LET proc == procs[r]
  IN
  /\ proc.pc = "saveOrder"
  /\ orders' = [orders EXCEPT ![proc.o] =
                  OrderSave(@, proc.order, PaidDoc(proc.order, proc.details), <<>>)]
  /\ HistoryBounded(orders')
  /\ procs' = [procs EXCEPT ![r].pc = "findProduct"]
  /\ UNCHANGED <<products, carts, usedCount, intents, ledger, last>>

\* await Product.findById(item.productId) in the loop over the items.
awaitProductFindById(r) ==
  LET proc == procs[r]
  IN
  /\ proc.pc = "findProduct"
  /\ procs' = [procs EXCEPT ![r].pc = "saveProduct",
                            ![r].product = products[proc.order.items[proc.i].productId]]
  /\ UNCHANGED <<products, carts, orders, usedCount, intents, ledger, last>>

\* product.stock.quantity -= item.quantity; await product.save(): the paths
\* the reconciler modified on its copy are set on the stored document; a
\* quantity below 0 fails validation and ends processSuccessfulPayment.
awaitProductSave(r) ==
  LET proc == procs[r]
      item == proc.order.items[proc.i]
      q == proc.product.quantity - item.quantity
      doc == ProductSave([proc.product EXCEPT !.quantity = q])
  IN
  /\ proc.pc = "saveProduct"
  /\ UNCHANGED <<carts, orders, usedCount, intents, ledger>>
  /\ IF q < 0
     THEN /\ procs' = [procs EXCEPT ![r].pc = "done"]
          /\ last' = Answered(r, IF proc.kind = "verifyPayment" THEN 500 ELSE 200)
          /\ UNCHANGED products
     ELSE /\ products' =
               [products EXCEPT
                  ![item.productId].quantity = q,
                  ![item.productId].isInStock =
                     IF doc.isInStock # proc.product.isInStock
                     THEN doc.isInStock ELSE @]
          /\ procs' = [procs EXCEPT
                         ![r].pc = IF proc.i = Len(proc.order.items)
                                   THEN "clearCart" ELSE "findProduct",
                         ![r].i = proc.i + 1,
                         ![r].saved = proc.saved + 1]
          /\ UNCHANGED last

\* await Cart.findOneAndUpdate({userId}, {items: []}), and the answer.
awaitCartFindOneAndUpdate(r) ==
  LET proc == procs[r]
  IN
  /\ proc.pc = "clearCart"
  /\ carts' = CartClearByUpdate(carts, proc.order.userId)
  /\ procs' = [procs EXCEPT ![r].pc = "done"]
  /\ last' = Answered(r, 200)
  /\ UNCHANGED <<products, orders, usedCount, intents, ledger>>

InitRace == InitDatabase /\ procs = [r \in Reconcilers |-> Idle]

NextRace ==
  \/ \E u \in Customers, p \in Products, q \in 1..MaxQty : addToCart(u, p, q)
  \/ \E u \in Customers, t \in Times :
       Len(orders) < MaxOrders /\ createOrder(u, NoCoupon, "razorpay", t)
  \/ \E u \in Customers, o \in 1..MaxOrders : createPaymentOrder(u, o, TRUE)
  \/ \E r \in Reconcilers, k \in ReconcilerKinds, o \in 1..MaxOrders :
       awaitOrderFindById(r, k, o)
  \/ \E r \in Reconcilers : awaitOrderSave(r)
  \/ \E r \in Reconcilers : awaitProductFindById(r)
  \/ \E r \in Reconcilers : awaitProductSave(r)
  \/ \E r \in Reconcilers : awaitCartFindOneAndUpdate(r)

SpecRace == InitRace /\ [][NextRace]_vars

(***************************************************************************)
(* Concurrent checkouts.  A createOrder request runs up to its next        *)
(* awaited database call, and another request may run in between.          *)
(***************************************************************************)
Checkouts == 1..MaxCheckouts

IdleCheckout ==
  [pc |-> "idle", u |-> "", coupon |-> NoCoupon, method |-> "", items |-> <<>>,
   used |-> 0, now |-> 0, count |-> 0, o |-> NoOrder, code |-> 0]

\* The answer of a checkout.
CheckoutAnswered(o, code) ==
  [op |-> "createOrder", o |-> o, arg |-> "", found |-> "", code |-> code]

\* await Cart.findOne({userId}).populate('items.productId'); the stock checks
\* and the pricing are computed from what was read.
awaitCartFindOne(k, u, c, m) ==
  LET cart == carts[u]
      refused == \/ ~cart.exists \/ Len(cart.items) = 0
                 \/ FirstInvalidItem(products, cart.items, 1) # 0
  IN
  /\ procs[k].pc = "idle"
  /\ procs' =
       [procs EXCEPT ![k] =
          [IdleCheckout EXCEPT
             !.pc = IF refused THEN "done"
                    ELSE IF c # NoCoupon THEN "findCoupon" ELSE "countDocuments",
             !.u = u, !.coupon = c, !.method = m, !.items = cart.items,
             !.code = IF refused THEN 400 ELSE 0]]
  /\ last' = IF refused THEN CheckoutAnswered(NoOrder, 400) ELSE last
  /\ UNCHANGED <<products, carts, orders, usedCount, intents, ledger>>

\* await Coupon.findOne({code, isActive, validFrom, validUntil}), and the
\* checks on the document that was read.
awaitCouponFindOne(k, now) ==
  LET proc == procs[k]
      refused == CouponCheck(proc.coupon, now, usedCount, proc.items) # "ok"
  IN
  /\ proc.pc = "findCoupon"
  /\ procs' = [procs EXCEPT ![k].pc = IF refused THEN "done" ELSE "saveCoupon",
                            ![k].used = usedCount[proc.coupon],
                            ![k].code = IF refused THEN 400 ELSE 0]
  /\ last' = IF refused THEN CheckoutAnswered(NoOrder, 400) ELSE last
  /\ UNCHANGED <<products, carts, orders, usedCount, intents, ledger>>

\* The coupon saved with an atomic increment of the stored count.
awaitCouponSaveInc(k) ==
  /\ procs[k].pc = "saveCoupon"
  /\ usedCount' = [usedCount EXCEPT ![procs[k].coupon] = @ + 1]
  /\ procs' = [procs EXCEPT ![k].pc = "countDocuments"]
  /\ UNCHANGED <<products, carts, orders, intents, ledger, last>>

\* coupon.usedCount += 1; await coupon.save(): the count of the copy that was
\* read, plus one, is set on the stored document.
awaitCouponSave(k) ==
  /\ procs[k].pc = "saveCoupon"
  /\ usedCount' = [usedCount EXCEPT ![procs[k].coupon] = procs[k].used + 1]
  /\ procs' = [procs EXCEPT ![k].pc = "countDocuments"]
  /\ UNCHANGED <<products, carts, orders, intents, ledger, last>>

\* Order.create, pre('save'): await countDocuments(), then the clock.
awaitCountDocuments(k, now) ==
  /\ procs[k].pc = "countDocuments"
  /\ procs' = [procs EXCEPT ![k].pc = "insert",
                            ![k].count = Len(orders),
                            ![k].now = now]
  /\ UNCHANGED <<products, carts, orders, usedCount, intents, ledger, last>>

\* Order.create: the insert, refused by the unique index on a number that
\* is taken; and the answer.
awaitOrderInsert(k) ==
  LET proc == procs[k]
      order == NewOrder(proc.u, proc.items, proc.coupon, proc.method,
                        proc.now, proc.count)
      taken == OrderNumberTaken(orders, order.orderNumber)
  IN
  /\ proc.pc = "insert"
  /\ orders' = IF taken THEN orders ELSE Append(orders, order)
  /\ procs' = [procs EXCEPT ![k].pc = "done",
                            ![k].o = IF taken THEN NoOrder ELSE Len(orders) + 1,
                            ![k].code = IF taken THEN 400 ELSE 201]
  /\ last' = CheckoutAnswered(procs'[k].o, procs'[k].code)
  /\ UNCHANGED <<products, carts, usedCount, intents, ledger>>

InitCheckoutRace == InitDatabase /\ procs = [k \in Checkouts |-> IdleCheckout]

NextCheckoutRace ==
  \/ \E u \in Customers, p \in Products, q \in 1..MaxQty : addToCart(u, p, q)
  \/ \E k \in Checkouts, u \in Customers, c \in CouponCodes \cup {NoCoupon} :
       awaitCartFindOne(k, u, c, "cod")
  \/ \E k \in Checkouts, t \in Times : awaitCouponFindOne(k, t)
  \/ \E k \in Checkouts : awaitCouponSave(k)
  \/ \E k \in Checkouts, t \in Times : awaitCountDocuments(k, t)
  \/ \E k \in Checkouts : awaitOrderInsert(k)

SpecCheckoutRace == InitCheckoutRace /\ [][NextCheckoutRace]_vars

(***************************************************************************)
(* Properties.                                                             *)
(***************************************************************************)
\* The units of product p on the lines of an order.
RECURSIVE QtyOf(_, _, _)
QtyOf(items, p, i) ==
  IF i > Len(items) THEN 0
  ELSE (IF items[i].productId = p THEN items[i].quantity ELSE 0) + QtyOf(items, p, i + 1)

\* The last request confirmed a payment: a verify call whose signature was
\* accepted, or a delivered payment.captured event.
PaymentConfirmation ==
  \/ last'.op = "verifyPayment" /\ last'.code \in {200, 500}
  \/ last'.op = "handleWebhook" /\ last'.arg = "payment.captured" /\ last'.code = 200

\* The payment of order o was completed by the webhook (which stores no
\* signature) or by the verify call (which stores the client's).
CompletedByWebhook(o) ==
  orders[o].payment.status = "completed" /\ orders[o].payment.razorpaySignature = NoId
CompletedByVerify(o) ==
  orders[o].payment.status = "completed" /\ orders[o].payment.razorpaySignature # NoId

\* C1: a payment confirmation (a verify call with a valid signature, or a
\* payment.captured webhook) that finds the order's payment.status already
\* completed changes no stock and no cart, so that the two entry points
\* together decrement stock and clear the cart once, in either order.
C1_SecondConfirmationChangesNothing ==
  [][ \A o \in OrderIds :
        (/\ PaymentConfirmation
         /\ last'.o = o
         /\ \/ last'.op = "verifyPayment" /\ CompletedByWebhook(o)
            \/ last'.op = "handleWebhook" /\ CompletedByVerify(o))
          => UNCHANGED <<products, carts>> ]_vars

C3_RaceDecrementsOnce ==
  \A o \in OrderIds :
    (\A r \in Reconcilers :
       /\ procs[r].pc = "done"
       /\ procs[r].o = o
       /\ procs[r].order.payment.status = "pending")
      => \A p \in Products :
           products[p].quantity = InitStock(p) - QtyOf(orders[o].items, p, 1)

\* An admin set the order's status to confirmed at some point.
AdminConfirmed(o) ==
  \E k \in 1..Len(orders[o].statusHistory) :
    orders[o].statusHistory[k] = Entry("confirmed", "admin")

\* C4: whatever admin status updates, verify calls and webhooks an order
\* went through, an admin confirmation among them, no more units of a
\* product were taken from stock on its behalf than it orders.
C4_StockTakenOnce ==
  \A o \in OrderIds :
    AdminConfirmed(o) =>
      \A p \in Products : ledger[o].taken[p] <= QtyOf(orders[o].items, p, 1)

\* C5: a webhook request whose signature is not the HMAC of its body under
\* the webhook secret is answered with 400 and changes no order, no stock
\* and no cart, whatever event and payload it carries.
C5_InvalidWebhookRejected ==
  [][ last'.op = "handleWebhook" =>
      \A req \in WebhookRequests :
        (/\ req.signature # Hmac(WebhookSecret, req.body)
         /\ req.body.event = last'.arg
         /\ handleWebhook(req))
          => /\ last'.code = 400
             /\ UNCHANGED <<orders, products, carts, usedCount>> ]_vars

\* A forged payment.captured event for an existing unpaid order was refused.
C5_Witness ==
  /\ last.op = "handleWebhook" /\ last.arg = "payment.captured" /\ last.code = 400
  /\ last.o \in OrderIds
  /\ last.o \in intents
  /\ orders[last.o].payment.status = "pending"

\* C6: a verify call by the owner on an order that is pending (its status or
\* its payment), with
\* a signature that is not the HMAC of the two ids under the key secret,
\* sets payment.status to failed, answers 400, and leaves the order's
\* status, the stock and the carts as they were.
C6_BadSignatureFailsPayment ==
  [][ last'.op = "verifyPayment" =>
      \A u \in Users, o \in OrderIds, t \in PaymentTriples :
        (/\ orders[o].userId = u
         /\ orders[o].payment.status = "pending" \/ orders[o].status = "pending"
         /\ t.razorpaySignature
              # Hmac(KeySecret, <<t.razorpayOrderId, t.razorpayPaymentId>>)
         /\ verifyPayment(u, o, t))
          => /\ orders'[o].payment.status = "failed"
             /\ last'.code = 400
             /\ orders'[o].status = orders[o].status
             /\ orders'[o].statusHistory = orders[o].statusHistory
             /\ UNCHANGED <<products, carts>> ]_vars

\* The owner's verify call with a bad signature failed a pending payment.
C6_Witness ==
  /\ last.op = "verifyPayment" /\ last.code = 400 /\ last.found = "pending"
  /\ last.o \in OrderIds
  /\ orders[last.o].payment.status = "failed"
  /\ orders[last.o].status = "pending"

\* C7: payment.status only moves pending -> completed, pending -> failed and
\* completed -> refunded.
C7_PaymentStatusTransitions ==
  [][ \A o \in OrderIds :
        orders'[o].payment.status # orders[o].payment.status
          => <<orders[o].payment.status, orders'[o].payment.status>>
               \in {<<"pending", "completed">>, <<"pending", "failed">>,
                    <<"completed", "refunded">>} ]_vars

\* C8: a refund of an order whose payment is completed that the gateway
\* accepts sets payment.status to refunded and status to cancelled and puts
\* every line's quantity back into its product's stock; a refund of an order
\* whose payment is not completed is answered with 400 and changes nothing.
C8_RefundRestoresStock ==
  [][ last'.op = "initiateRefund" =>
      \A o \in OrderIds, g \in BOOLEAN :
        initiateRefund(o, g)
          => /\ (orders[o].payment.status = "completed" /\ g)
                  => /\ orders'[o].payment.status = "refunded"
                     /\ orders'[o].status = "cancelled"
                     /\ last'.code = 200
                     /\ \A p \in Products :
                          products'[p].quantity
                            = products[p].quantity + QtyOf(orders[o].items, p, 1)
             /\ orders[o].payment.status # "completed"
                  => /\ last'.code = 400
                     /\ UNCHANGED <<orders, products, carts>> ]_vars

\* A completed order of two units of one product was refunded.
C8_Witness ==
  /\ last.op = "initiateRefund" /\ last.code = 200 /\ last.found = "completed"
  /\ last.o \in OrderIds
  /\ orders[last.o].payment.status = "refunded"
  /\ \E p \in Products :
       /\ QtyOf(orders[last.o].items, p, 1) = 2
       /\ ledger[last.o].restored[p] = 2

\* The request is a createOrder by u on a cart that is not empty and whose
\* every line names an active product with enough stock.
ValidCheckout(u) ==
  /\ carts[u].exists
  /\ Len(carts[u].items) > 0
  /\ \A i \in 1..Len(carts[u].items) :
       /\ products[carts[u].items[i].productId].isActive
       /\ products[carts[u].items[i].productId].quantity >= carts[u].items[i].quantity

\* The step added one order of u, pending and unpaid, with the lines of u's
\* cart, and left the other orders alone.
PersistedOne(u) ==
  /\ Len(orders') = Len(orders) + 1
  /\ SubSeq(orders', 1, Len(orders)) = orders
  /\ LET order == orders'[Len(orders')]
         items == carts[u].items
     IN /\ order.userId = u
        /\ order.status = "pending"
        /\ order.payment.status = "pending"
        /\ Len(order.items) = Len(items)
        /\ \A i \in 1..Len(items) :
             /\ order.items[i].productId = items[i].productId
             /\ order.items[i].quantity = items[i].quantity
             /\ order.items[i].price = items[i].price
  /\ last'.code = 201

PreDiscountTotal(items) ==
  LET goods == SumItems(items, 1) + SumMaking(items, 1)
      weight == SumWeight(items, 1)
  IN goods + (goods * 3) \div 100
       + (IF weight <= 50 THEN 100 ELSE IF weight <= 100 THEN 150 ELSE 200) * Rupee

\* Coupon code c, used at time t on these cart lines, is invalid, expired,
\* exhausted or below its minimum.
CouponRefused(c, t, items) ==
  \/ c \notin CouponCodes
  \/ ~Coupon(c).isActive
  \/ t < Coupon(c).validFrom
  \/ t > Coupon(c).validUntil
  \/ Coupon(c).usageLimit # NoLimit /\ usedCount[c] >= Coupon(c).usageLimit
  \/ PreDiscountTotal(items) < Coupon(c).minOrderAmount

\* C11: a createOrder on an empty cart, on a cart with a line whose product
\* is inactive or short of stock, or with a coupon code that is invalid,
\* expired, exhausted or below its minimum is answered with 400 and changes
\* no order, no stock, no cart and no coupon's usedCount.
C11_RejectedCheckoutChangesNothing ==
  [][ last'.op = "createOrder" =>
      \A u \in Customers, c \in CouponCodes \cup {NoCoupon},
         m \in PAYMENT_METHOD, t \in Times :
        (/\ \/ ~ValidCheckout(u)
            \/ c # NoCoupon /\ CouponRefused(c, t, carts[u].items)
         /\ createOrder(u, c, m, t))
          => /\ last'.code = 400
             /\ UNCHANGED <<orders, products, carts, usedCount>> ]_vars

\* A checkout with an exhausted coupon was refused: the coupon stays at its
\* cap, the cart keeps its lines and the one earlier order is the only one.
C11_Witness ==
  /\ last.op = "createOrder" /\ last.code = 400
  /\ usedCount["SAVE10"] = Coupon("SAVE10").usageLimit
  /\ Len(orders) = 1
  /\ Len(carts["u1"].items) > 0
  /\ \A i \in 1..Len(carts["u1"].items) :
       /\ products[carts["u1"].items[i].productId].isActive
       /\ products[carts["u1"].items[i].productId].quantity
            >= carts["u1"].items[i].quantity

\* C10: createOrder, answered 201 or with an error, changes no stock and no
\* cart; stock only goes down in a payment confirmation or an admin status
\* update.
C10_CreateOrderKeepsStockAndCart ==
  [][ /\ last'.op = "createOrder" => UNCHANGED <<products, carts>>
      /\ (\E p \in Products : products'[p].quantity < products[p].quantity)
           => last'.op \in {"verifyPayment", "handleWebhook", "updateOrderStatus"}
      /\ (\E u \in Users : Len(carts'[u].items) < Len(carts[u].items))
           => last'.op \in {"verifyPayment", "handleWebhook", "updateOrderStatus",
                            "clearCart"}
    ]_vars

\* An order was created and the cart it was made from still holds its lines.
C10_Witness ==
  /\ last.op = "createOrder" /\ last.code = 201
  /\ last.o \in OrderIds
  /\ Len(carts[orders[last.o].userId].items) = Len(orders[last.o].items)
  /\ \A p \in Products : products[p].quantity = InitStock(p)

\* C12: the pricing persisted with every order adds up: subtotal is the sum
\* of price x quantity over its lines, makingCharges the sum of the products'
\* making charges x quantity, gst 3% of subtotal plus makingCharges, and total
\* is subtotal + makingCharges + gst + shippingCharges - discount, each a
\* whole number of paise.
C12_PricingAddsUp ==
  \A o \in OrderIds :
    LET pr == orders[o].pricing
        lines == orders[o].items
    IN /\ pr.subtotal = Round2(SumItems(lines, 1))
       /\ pr.makingCharges = Round2(SumMaking(lines, 1))
       /\ pr.gst = Round2(((pr.subtotal + pr.makingCharges) * 3) \div 100)
       /\ pr.total = Round2(pr.subtotal + pr.makingCharges + pr.gst
                              + pr.shippingCharges - pr.discount)

\* Total weight of an order, from the weight and quantity of its lines.
RECURSIVE OrderWeight(_, _)
OrderWeight(lines, i) ==
  IF i > Len(lines) THEN 0
  ELSE lines[i].weight * lines[i].quantity + OrderWeight(lines, i + 1)

\* C13: the shipping charge of every created order is 100 when the order
\* weighs at most 50, 150 when it weighs more than 50 and at most 100, and
\* 200 above 100.
C13_ShippingByWeight ==
  \A o \in OrderIds :
    LET w == OrderWeight(orders[o].items, 1)
    IN orders[o].pricing.shippingCharges =
         (IF w <= 50 THEN 100 ELSE IF w <= 100 THEN 150 ELSE 200) * Rupee

\* An order of exactly 100 kg was created, charged 150.
C13_Witness ==
  /\ last.op = "createOrder" /\ last.code = 201 /\ last.o \in OrderIds
  /\ OrderWeight(orders[last.o].items, 1) = 100
  /\ orders[last.o].pricing.shippingCharges = 150 * Rupee

\* The discount a coupon stands for on a cart, before it is rounded.
CouponDiscount(c, items) ==
  IF Coupon(c).discountType = "percentage"
  THEN LET d == (PreDiscountTotal(items) * Coupon(c).discountValue) \div 100
       IN IF Coupon(c).maxDiscountAmount # NoLimit /\ d > Coupon(c).maxDiscountAmount
          THEN Coupon(c).maxDiscountAmount
          ELSE d
  ELSE Coupon(c).discountValue

\* C14: an order created with a coupon carries, rounded to 2 decimals, the
\* coupon's percentage of the pre-discount total (subtotal, making charges,
\* gst and shipping), capped at maxDiscountAmount when one is set, or the
\* coupon's fixed amount; and the coupon was active, inside its validity
\* window, below its usage cap and the pre-discount total was at least its
\* minOrderAmount.
C14_CouponDiscount ==
  [][ last'.op = "createOrder" /\ last'.code = 201 =>
      \A u \in Customers, c \in CouponCodes, m \in PAYMENT_METHOD, t \in Times :
        createOrder(u, c, m, t) =>
          /\ ~CouponRefused(c, t, carts[u].items)
          /\ orders'[last'.o].pricing.discount
               = Round2(CouponDiscount(c, carts[u].items)) ]_vars

\* An order was created with the capped percentage coupon, and the cap was
\* lower than the percentage.
C14_Witness ==
  /\ last.op = "createOrder" /\ last.code = 201 /\ last.o \in OrderIds
  /\ usedCount["SAVE10"] = 1
  /\ orders[last.o].pricing.discount = Coupon("SAVE10").maxDiscountAmount
  /\ LET pr == orders[last.o].pricing
     IN ((pr.subtotal + pr.makingCharges + pr.gst + pr.shippingCharges)
           * Coupon("SAVE10").discountValue) \div 100
          > Coupon("SAVE10").maxDiscountAmount

\* The checkouts that persisted an order with coupon c.
OrdersWith(c) ==
  {k \in Checkouts : procs[k].pc = "done" /\ procs[k].code = 201 /\ procs[k].coupon = c}

NoCheckoutInFlight == \A k \in Checkouts : procs[k].pc \in {"idle", "done"}

\* C15: whenever no checkout is in flight, the usedCount of every coupon is
\* the number of orders that were persisted with that coupon.
C15_UsedCountCountsOrders ==
  NoCheckoutInFlight =>
    \A c \in CouponCodes : usedCount[c] = Cardinality(OrdersWith(c))

\* C16: the usedCount of a coupon with a usage cap never exceeds its
\* usageLimit, whatever the interleaving of concurrent checkouts.
C16_UsedCountWithinLimit ==
  \A c \in CouponCodes :
    Coupon(c).usageLimit # NoLimit => usedCount[c] <= Coupon(c).usageLimit

\* Two checkouts with the capped coupon both read it before either saved
\* it, and both saved it.
C16_Witness ==
  /\ \A k \in {1, 2} :
       /\ procs[k].coupon = "SAVE10"
       /\ procs[k].pc \in {"countDocuments", "insert", "done"}
       /\ procs[k].used = 0
  /\ usedCount["SAVE10"] = Coupon("SAVE10").usageLimit

\* C17: no two persisted orders share an orderNumber, and no checkout ever
\* holds, for the order it is about to insert, a number that an order
\* already carries.
C17_OrderNumbersNeverCollide ==
  /\ \A i, j \in OrderIds : orders[i].orderNumber = orders[j].orderNumber => i = j
  /\ \A k \in Checkouts :
       procs[k].pc = "insert"
         => ~OrderNumberTaken(orders, <<procs[k].now, procs[k].count + 1>>)

\* C18: for every product, stock.isInStock is TRUE exactly when
\* stock.quantity is above 0.
C18_InStockIffQuantity ==
  \A p \in Products : products[p].isInStock = (products[p].quantity > 0)

\* C19: the totalAmount of every cart is the sum of quantity x price over
\* its line items, 0 for a cart without lines.
C19_CartTotalIsSumOfLines ==
  \A u \in Users : carts[u].totalAmount = SumItems(carts[u].items, 1)

\* C20: in every step the statusHistory of an order keeps the entries it
\* had; a step that changes the order's status appends exactly one entry,
\* carrying the new status, and a step that leaves the status as it was
\* appends none.
C20_OneEntryPerTransition ==
  [][ \A o \in OrderIds :
        LET old == orders[o].statusHistory
            new == orders'[o].statusHistory
        IN /\ Len(new) >= Len(old)
           /\ SubSeq(new, 1, Len(old)) = old
           /\ IF orders'[o].status # orders[o].status
              THEN /\ Len(new) = Len(old) + 1
                   /\ new[Len(new)].status = orders'[o].status
              ELSE new = old ]_vars

\* Position of a status on the way pending -> ... -> delivered; 0 for the
\* two alternate terminals.
StatusRank(st) ==
  CASE st = "pending" -> 1 [] st = "confirmed" -> 2 [] st = "processing" -> 3
    [] st = "shipped" -> 4 [] st = "delivered" -> 5 [] OTHER -> 0

TerminalStatuses == {"delivered", "cancelled", "returned"}

\* C21: in every step the status of an order stays as it is, moves forward
\* on pending -> confirmed -> processing -> shipped -> delivered, or goes
\* from a non-terminal status to cancelled or returned; a delivered,
\* cancelled or returned order keeps its status.
C21_StatusMovesForward ==
  [][ \A o \in OrderIds :
        LET old == orders[o].status
            new == orders'[o].status
        IN new # old =>
             /\ old \notin TerminalStatuses
             /\ \/ new \in {"cancelled", "returned"}
                \/ StatusRank(new) > StatusRank(old) ]_vars

\* C22: no step changes the line items or the pricing block of an order
\* that exists.
C22_ItemsAndPricingFrozen ==
  [][ \A o \in OrderIds :
        /\ orders'[o].items = orders[o].items
        /\ orders'[o].pricing = orders[o].pricing ]_vars

\* An order went through payment and refund, the cart of its owner holds
\* other lines by now, and the order still carries the lines and the pricing
\* it was created with.
C22_Witness ==
  /\ last.op = "initiateRefund" /\ last.code = 200 /\ last.o \in OrderIds
  /\ orders[last.o].payment.status = "refunded"
  /\ Len(orders[last.o].items) > 0
  /\ carts[orders[last.o].userId].items # <<>>
  /\ orders[last.o].pricing = pricingOf(NoCoupon, orders[last.o].items)
  /\ orderItems(carts[orders[last.o].userId].items) # orders[last.o].items

\* The stock of every product is what it was less the quantity ordered on o.
StockTakenFor(o) ==
  \A p \in Products :
    products'[p].quantity = products[p].quantity - QtyOf(orders[o].items, p, 1)

\* C23: a createOrder whose notification fails and whose order was inserted
\* answers 201 with that order; a verifyPayment whose notification fails,
\* after processSuccessfulPayment returned, answers 200 and leaves the order
\* completed and confirmed, its stock taken and the owner's cart empty; and
\* so does a payment.captured delivery that finds the order not completed
\* and its stock available.
C23_EmailFailureHarmless ==
  [][ /\ last'.op = "createOrder" =>
           \A u \in Customers, c \in CouponCodes \cup {NoCoupon},
              m \in PAYMENT_METHOD, t \in Times :
             (createOrderSending(u, c, m, t, FALSE) /\ orders' # orders)
               => /\ last'.code = 201
                  /\ last'.o = Len(orders')
                  /\ orders'[last'.o].userId = u
      /\ last'.op = "verifyPayment" =>
           \A u \in Users, o \in OrderIds, tr \in PaymentTriples :
             (/\ verifyPaymentSending(u, o, tr, FALSE)
              /\ orders[o].userId = u
              /\ tr.razorpaySignature
                   = Hmac(KeySecret, <<tr.razorpayOrderId, tr.razorpayPaymentId>>)
              /\ processSuccessfulPayment(Database, o, tr).ok)
               => /\ last'.code = 200
                  /\ orders'[o].payment.status = "completed"
                  /\ orders'[o].status = "confirmed"
                  /\ StockTakenFor(o)
                  /\ carts'[u].items = <<>>
      /\ (/\ last'.op = "handleWebhook" /\ last'.arg = "payment.captured"
          /\ last'.code = 200 /\ last'.o \in OrderIds
          /\ last'.found # "completed"
          /\ \A p \in Products :
               products[p].quantity >= QtyOf(orders[last'.o].items, p, 1))
           => /\ orders'[last'.o].payment.status = "completed"
              /\ orders'[last'.o].status = "confirmed"
              /\ StockTakenFor(last'.o)
              /\ carts'[orders[last'.o].userId].items = <<>> ]_vars

\* A verifyPayment was answered 200 and left the order paid, while a failed
\* notification is among the ways that answer came about.
C23_Witness ==
  /\ last.op = "verifyPayment" /\ last.code = 200 /\ last.o \in OrderIds
  /\ TrySendEmail(FALSE, 200) = last.code
  /\ orders[last.o].payment.status = "completed"
  /\ orders[last.o].status = "confirmed"
  /\ carts[orders[last.o].userId].items = <<>>

\* C24: an order whose payment.status is completed has had the stock of
\* every product on it decremented by at least the quantity ordered.
C24_CompletedMeansStockTaken ==
  \A o \in OrderIds :
    orders[o].payment.status = "completed"
      => \A p \in Products : ledger[o].taken[p] >= QtyOf(orders[o].items, p, 1)

\* C25: an admin updateOrderStatus to confirmed on a pending order leaves
\* the stock, the carts and the status of the order as
\* processSuccessfulPayment would have left them from the same state,
\* whether the stock updates succeed or one of them fails.
C25_AdminConfirmsLikePayment ==
  [][ (/\ last'.op = "updateOrderStatus" /\ last'.arg = "confirmed"
       /\ last'.o \in OrderIds
       /\ orders[last'.o].status = "pending")
        => LET o == last'.o
               paid == processSuccessfulPayment(Database, o, DetailsOf("verifyPayment", o))
           IN /\ products' = paid.products
              /\ carts' = paid.carts
              /\ orders'[o].status = paid.orders[o].status ]_vars

\* C26: a verifyPayment whose triple carries another razorpayOrderId than
\* the one stored on the order as its payment intent leaves the order's
\* payment.status and status as they were, valid signature or not.
C26_OnlyOwnIntentCompletes ==
  [][ last'.op = "verifyPayment" =>
        \A u \in Users, o \in OrderIds, tr \in PaidTriples :
          (/\ verifyPayment(u, o, tr)
           /\ tr.razorpayOrderId # orders[o].payment.razorpayOrderId)
            => /\ orders'[o].payment.status = orders[o].payment.status
               /\ orders'[o].status = orders[o].status ]_vars

\* C27: for every order and product, the quantity put back on behalf of the
\* order never exceeds the quantity taken on its behalf.
C27_RestoredAtMostTaken ==
  \A o \in OrderIds, p \in Products : ledger[o].restored[p] <= ledger[o].taken[p]

\* C28: a cancelOrder by the owner of a shipped, delivered or cancelled
\* order is answered 400 and changes no order, stock or cart; on any other
\* order it sets the status to cancelled, and after it everything that was
\* taken from stock for the order has been put back.
C28_CancelSettlesStock ==
  [][ last'.op = "cancelOrder" =>
        \A u \in Users, o \in OrderIds :
          (cancelOrder(u, o) /\ orders[o].userId = u)
            => IF orders[o].status \in {"shipped", "delivered", "cancelled"}
               THEN /\ last'.code = 400
                    /\ UNCHANGED <<orders, products, carts>>
               ELSE /\ orders'[o].status = "cancelled"
                    /\ \A p \in Products :
                         ledger'[o].restored[p] = ledger'[o].taken[p] ]_vars

\* C29: the stock.quantity of every product is at least 0.
C29_StockNeverNegative ==
  \A p \in Products : products[p].quantity >= 0

\* Two orders were created on the last unit of a product, one took it, and
\* the confirmation of the other (by payment or by the admin) was refused
\* with the stock at 0.
C29_Witness ==
  /\ Len(orders) = 2
  /\ \E p \in Products :
       /\ products[p].quantity = 0
       /\ QtyOf(orders[1].items, p, 1) + QtyOf(orders[2].items, p, 1) > InitStock(p)
       /\ \E a, b \in OrderIds :
            /\ a # b
            /\ ledger[a].taken[p] = QtyOf(orders[a].items, p, 1)
            /\ ledger[a].taken[p] > 0
            /\ ledger[b].taken[p] = 0
            /\ last.o = b
            /\ last.op \in {"verifyPayment", "updateOrderStatus"}
            /\ last.code \in {400, 500}

\* C30: on every order the discount is at least 0 and at most subtotal +
\* makingCharges + gst + shippingCharges, and the total is at least 0.
C30_DiscountWithinTotal ==
  \A o \in OrderIds :
    LET pr == orders[o].pricing
    IN /\ 0 <= pr.discount
       /\ pr.discount <= pr.subtotal + pr.makingCharges + pr.gst + pr.shippingCharges
       /\ pr.total >= 0

====
